---------------------------- MODULE Spec2Model ----------------------------
(***************************************************************************)
(* OpenCast: a Raycast extension talking to a local OpenCode HTTP server.  *)
(*                                                                         *)
(* The module holds six specifications over one set of variables:          *)
(*   SpecExtract    extractTextFromParts over bounded part sequences       *)
(*   SpecApi        the transport client OpenCodeAPI, one call at a time   *)
(*   SpecProviders  fetchProviders over bounded provider directories       *)
(*   SpecBrowseLoad loadSessions over bounded session lists                *)
(*   SpecTitle      a start over prompts around the 50-character limit     *)
(*   Spec           the two commands (Ask OpenCode, List OpenCode Sessions)*)
(*                  running against a server, with their suspended handlers*)
(*                                                                         *)
(* A string is a sequence of one-character strings; an optional value is a *)
(* sequence of length 0 (absent, undefined) or 1 (present).                *)
(***************************************************************************)
EXTENDS Integers, Sequences, FiniteSets, TLC

VARIABLES
    parts, extracted,                               \* extractTextFromParts: argument, result
    apiPrefs, apiCall, apiRequests, apiOutcome,     \* the transport: preferences, pending call
    cmd,        \* the command Raycast runs: "ask", "browse" ("none" while no command runs)
    srv,        \* the OpenCode server: sessions in list order, deleted ids, messages, clock
    ask,        \* useState of AskOpenCode
    browse,     \* useState of BrowseSessions
    stack,      \* the views pushed above the command's root view, the top last
    flows,      \* handlers suspended at an await of the transport, in the order they began
    provFetch,  \* the listProviders call fetchProviders awaits, None once settled
    toast       \* the toast on screen

exVars == <<parts, extracted>>
apiVars == <<apiPrefs, apiCall, apiRequests, apiOutcome>>
appVars == <<cmd, srv, ask, browse, stack, flows, provFetch, toast>>
vars == <<parts, extracted, apiPrefs, apiCall, apiRequests, apiOutcome,
          cmd, srv, ask, browse, stack, flows, provFetch, toast>>

None == <<>>
Some(v) == <<v>>
IsSome(o) == Len(o) = 1
Val(o) == o[1]

RECURSIVE SeqsUpTo(_, _)
\* all sequences over S of length at most n
SeqsUpTo(S, n) ==
    IF n = 0 THEN {<<>>}
    ELSE LET shorter == SeqsUpTo(S, n - 1)
         IN  shorter \cup {Append(s, x) : s \in {t \in shorter : Len(t) = n - 1}, x \in S}

RECURSIVE Join(_, _)
\* Array.prototype.join: the strings of ss with sep between neighbours
Join(ss, sep) ==
    IF Len(ss) = 0 THEN <<>>
    ELSE IF Len(ss) = 1 THEN ss[1]
    ELSE ss[1] \o sep \o Join(Tail(ss), sep)

RECURSIVE FilterBoolean(_)
\* Array.prototype.filter(Boolean) on strings: the non-empty ones, in order
FilterBoolean(ss) ==
    IF Len(ss) = 0 THEN <<>>
    ELSE IF ss[1] # <<>> THEN <<ss[1]>> \o FilterBoolean(Tail(ss))
    ELSE FilterBoolean(Tail(ss))

\* JavaScript truthiness of an optional string: present and not ""
Truthy(o) == IsSome(o) /\ Val(o) # <<>>

\* the variables of extraction while another specification runs
ExtractIdle == parts = <<>> /\ extracted = None

\* the variables of the transport while another specification runs
ApiIdle ==
    /\ apiPrefs = [serverHost |-> "", serverPort |-> "", serverPassword |-> None]
    /\ apiCall = None
    /\ apiRequests = <<>>
    /\ apiOutcome = None

NoSession == [id |-> 0, title |-> None, updatedAt |-> 0]
NoToast == [style |-> "none", title |-> "", message |-> <<>>]
AskInitial ==
    [isLoading |-> FALSE, currentSession |-> None, conversation |-> <<>>,
     providers |-> <<>>, selectedModel |-> None]
BrowseInitial ==
    [sessions |-> <<>>, isLoading |-> TRUE, isServerOnline |-> None,
     providers |-> <<>>, selectedModel |-> None]
EmptyServer == [sessions |-> <<>>, deleted |-> {}, next |-> 0, clock |-> 0, msgs |-> <<>>]

\* the variables of the commands while another specification runs
AppIdle ==
    /\ cmd = "none"
    /\ srv = EmptyServer
    /\ ask = AskInitial
    /\ browse = BrowseInitial
    /\ stack = <<>>
    /\ flows = <<>>
    /\ provFetch = None
    /\ toast = NoToast

-----------------------------------------------------------------------------
(* api.ts: class OpenCodeAPI, the transport client *)

MaxSecretLen == 3
MaxPromptLen == 2
MaxSelectionLen == 3
MaxLimit == 11

\* the UTF-8 bytes of "opencode:"
OpencodeColon == <<111, 112, 101, 110, 99, 111, 100, 101, 58>>

\* the bytes a configured password is made of here: "s" and "3"
PasswordBytes == {115, 51}

B64Alphabet ==
    <<"A", "B", "C", "D", "E", "F", "G", "H", "I", "J", "K", "L", "M", "N", "O", "P",
      "Q", "R", "S", "T", "U", "V", "W", "X", "Y", "Z", "a", "b", "c", "d", "e", "f",
      "g", "h", "i", "j", "k", "l", "m", "n", "o", "p", "q", "r", "s", "t", "u", "v",
      "w", "x", "y", "z", "0", "1", "2", "3", "4", "5", "6", "7", "8", "9", "+", "/">>

B64Char(n) == B64Alphabet[n + 1]

RECURSIVE Base64(_)
\* Buffer.toString("base64"): three bytes to four characters, "=" padding
Base64(bytes) ==
    IF Len(bytes) = 0 THEN <<>>
    ELSE IF Len(bytes) = 1 THEN
        <<B64Char(bytes[1] \div 4), B64Char((bytes[1] % 4) * 16), "=", "=">>
    ELSE IF Len(bytes) = 2 THEN
        <<B64Char(bytes[1] \div 4),
          B64Char((bytes[1] % 4) * 16 + bytes[2] \div 16),
          B64Char((bytes[2] % 16) * 4), "=">>
    ELSE
        <<B64Char(bytes[1] \div 4),
          B64Char((bytes[1] % 4) * 16 + bytes[2] \div 16),
          B64Char((bytes[2] % 16) * 4 + bytes[3] \div 64),
          B64Char(bytes[3] % 64)>> \o Base64(SubSeq(bytes, 4, Len(bytes)))

\* getBaseUrl: `http://${host}:${port}` with the defaults for unset preferences
getBaseUrl(prefs) ==
    [scheme |-> "http",
     host |-> IF prefs.serverHost # "" THEN prefs.serverHost ELSE "127.0.0.1",
     port |-> IF prefs.serverPort # "" THEN prefs.serverPort ELSE "4096"]

\* the older transport: no Authorization header at all
getHeadersNoAuth(prefs) ==
    [h \in {"Content-Type"} |-> "application/json"]

\* getHeaders: Content-Type always, Authorization when serverPassword is truthy
getHeaders(prefs) ==
    IF Truthy(prefs.serverPassword)
    THEN [h \in {"Content-Type", "Authorization"} |->
            IF h = "Content-Type" THEN "application/json"
            ELSE <<"B", "a", "s", "i", "c", " ">>
                    \o Base64(OpencodeColon \o Val(prefs.serverPassword))]
    ELSE [h \in {"Content-Type"} |-> "application/json"]

Digits == <<"0", "1", "2", "3", "4", "5", "6", "7", "8", "9">>

RECURSIVE NatToString(_)
NatToString(n) ==
    IF n < 10 THEN <<Digits[n + 1]>>
    ELSE NatToString(n \div 10) \o <<Digits[(n % 10) + 1]>>

\* Number.prototype.toString of an integer
NumberToString(n) == IF n < 0 THEN <<"-">> \o NatToString(-n) ELSE NatToString(n)

\* a slip that would test the limit for presence instead of truthiness
GetMessagesQueryIfPresent(limit) ==
    IF IsSome(limit)
    THEN <<[key |-> "limit", value |-> NumberToString(Val(limit))]>>
    ELSE <<>>

\* getMessages: `if (limit) url.searchParams.set("limit", limit.toString())`
GetMessagesQuery(limit) ==
    IF IsSome(limit) /\ Val(limit) # 0
    THEN <<[key |-> "limit", value |-> NumberToString(Val(limit))]>>
    ELSE <<>>

RECURSIVE SplitOn(_, _)
\* String.prototype.split(sep) for a one-character separator
SplitOn(str, sep) ==
    IF \A i \in 1..Len(str) : str[i] # sep THEN <<str>>
    ELSE LET k == CHOOSE i \in 1..Len(str) :
                      str[i] = sep /\ \A j \in 1..(i - 1) : str[j] # sep
         IN  <<SubSeq(str, 1, k - 1)>> \o SplitOn(SubSeq(str, k + 1, Len(str)), sep)

\* a slip that would keep only the piece after the first "/"
SplitModelSecondPiece(modelStr) ==
    IF Truthy(modelStr)
    THEN LET pieces == SplitOn(Val(modelStr), "/")
         IN  Some([providerID |-> pieces[1],
                   modelID |-> IF Len(pieces) > 1 THEN pieces[2] ELSE <<>>])
    ELSE None

\* a slip that would send an empty selection where there is none
SplitModelUnchecked(modelStr) ==
    IF Truthy(modelStr)
    THEN LET pieces == SplitOn(Val(modelStr), "/")
         IN  Some([providerID |-> pieces[1],
                   modelID |-> Join(Tail(pieces), <<"/">>)])
    ELSE Some([providerID |-> <<>>, modelID |-> <<>>])

\* the callers' `const [providerID, ...modelParts] = modelStr.split("/")` and
\* `modelObj = { providerID, modelID: modelParts.join("/") }`, undefined when
\* the selection is falsy
SplitModel(modelStr) ==
    IF Truthy(modelStr)
    THEN LET pieces == SplitOn(Val(modelStr), "/")
         IN  Some([providerID |-> pieces[1],
                   modelID |-> Join(Tail(pieces), <<"/">>)])
    ELSE None

Request(prefs, method, path, query, body) ==
    [method |-> method, base |-> getBaseUrl(prefs), path |-> path, query |-> query,
     headers |-> getHeaders(prefs), body |-> body]

CheckHealthRequest(prefs) == Request(prefs, "GET", <<"global", "health">>, <<>>, None)
ListSessionsRequest(prefs) == Request(prefs, "GET", <<"session">>, <<>>, None)
CreateSessionRequest(prefs, title) ==
    Request(prefs, "POST", <<"session">>, <<>>, Some([title |-> title]))
GetSessionRequest(prefs, sid) == Request(prefs, "GET", <<"session", sid>>, <<>>, None)
DeleteSessionRequest(prefs, sid) == Request(prefs, "DELETE", <<"session", sid>>, <<>>, None)
\* the body's model member is modelled from the interface description: the
\* transport of src/ takes no third argument
SendMessageRequest(prefs, sid, prompt, modelObj) ==
    Request(prefs, "POST", <<"session", sid, "message">>, <<>>,
            Some([parts |-> <<[type |-> "text", text |-> prompt]>>, model |-> modelObj]))
GetMessagesRequest(prefs, sid, limit) ==
    Request(prefs, "GET", <<"session", sid, "message">>, GetMessagesQuery(limit), None)
AbortSessionRequest(prefs, sid) ==
    Request(prefs, "POST", <<"session", sid, "abort">>, <<>>, None)

\* the message of a rejected fetch when nothing listens on the port: the
\* runtime's fetch names the cause in it, or says "fetch failed" and keeps the
\* cause apart
NetworkErrorMessages == {<<"connect ECONNREFUSED 127.0.0.1:4096">>, <<"fetch failed">>}

\* the prefix of the error each operation throws on a non-success status
FailurePrefix(op) ==
    CASE op = "checkHealth" -> "Health check failed: "
      [] op = "listSessions" -> "Failed to list sessions: "
      [] op = "createSession" -> "Failed to create session: "
      [] op = "getSession" -> "Failed to get session: "
      [] op = "deleteSession" -> "Failed to delete session: "
      [] op = "sendMessage" -> "Failed to send message: "
      [] op = "getMessages" -> "Failed to get messages: "
      [] op = "abortSession" -> "Failed to abort session: "

\* a slip that would drop the status text from the error
ThrownMessageBare(op, statusText) == <<FailurePrefix(op)>>

\* `new Error(`<prefix>${response.statusText}`)`
ThrownMessage(op, statusText) == <<FailurePrefix(op), statusText>>

SessionIds == {"s1", "s2"}
ApiPrompts == SeqsUpTo({" ", "a"}, MaxPromptLen)
\* what a model dropdown can hold: `${provider.id}/${model.id}`, a string with
\* at least one "/", or nothing
Selections ==
    {None, Some(<<>>)} \cup
    {Some(str) : str \in {t \in SeqsUpTo({"a", "/"}, MaxSelectionLen) :
                              \E i \in 1..Len(t) : t[i] = "/"}}
Limits == {None} \cup {Some(n) : n \in (-1)..MaxLimit}
Titles == {None, Some(<<"a">>)}
StatusTexts == {"Not Found", "Unauthorized"}

InitApi ==
    /\ \E hostPort \in {<<"", "">>, <<"localhost", "8080">>},
          pw \in {None} \cup {Some(b) : b \in SeqsUpTo(PasswordBytes, MaxSecretLen)} :
            apiPrefs = [serverHost |-> hostPort[1], serverPort |-> hostPort[2],
                        serverPassword |-> pw]
    /\ apiCall = None
    /\ apiRequests = <<>>
    /\ apiOutcome = None
    /\ ExtractIdle
    /\ AppIdle

\* a call starts when none is pending: the operation issues its fetch
ApiStart(call, request) ==
    /\ apiCall = None
    /\ apiCall' = Some(call)
    /\ apiRequests' = <<request>>
    /\ apiOutcome' = None
    /\ UNCHANGED <<apiPrefs, exVars, appVars>>

ApiCheckHealth ==
    ApiStart([op |-> "checkHealth"], CheckHealthRequest(apiPrefs))

ApiListSessions ==
    ApiStart([op |-> "listSessions"], ListSessionsRequest(apiPrefs))

ApiCreateSession ==
    \E title \in Titles :
        ApiStart([op |-> "createSession", title |-> title],
                 CreateSessionRequest(apiPrefs, title))

ApiGetSession ==
    \E sid \in SessionIds :
        ApiStart([op |-> "getSession", sid |-> sid], GetSessionRequest(apiPrefs, sid))

ApiDeleteSession ==
    \E sid \in SessionIds :
        ApiStart([op |-> "deleteSession", sid |-> sid], DeleteSessionRequest(apiPrefs, sid))

\* the caller splits its selection, then api.sendMessage(sid, prompt, modelObj)
ApiSendMessage ==
    \E sid \in SessionIds, prompt \in ApiPrompts, modelStr \in Selections :
        ApiStart([op |-> "sendMessage", sid |-> sid, prompt |-> prompt, model |-> modelStr],
                 SendMessageRequest(apiPrefs, sid, prompt, SplitModel(modelStr)))

ApiGetMessages ==
    \E sid \in SessionIds, limit \in Limits :
        ApiStart([op |-> "getMessages", sid |-> sid, limit |-> limit],
                 GetMessagesRequest(apiPrefs, sid, limit))

ApiAbortSession ==
    \E sid \in SessionIds :
        ApiStart([op |-> "abortSession", sid |-> sid], AbortSessionRequest(apiPrefs, sid))

\* the fetch settles: a success status returns response.json(), any other status
\* throws the operation's error with the status text, a network failure rejects
ApiSettle ==
    /\ IsSome(apiCall) /\ apiOutcome = None
    /\ \/ apiOutcome' = Some([kind |-> "returned", message |-> <<>>,
                                response |-> Some("OK")])
       \/ \E st \in StatusTexts :
            apiOutcome' = Some([kind |-> "threw",
                                message |-> ThrownMessage(Val(apiCall).op, st),
                                response |-> Some(st)])
       \/ \E m \in NetworkErrorMessages :
            apiOutcome' = Some([kind |-> "threw", message |-> m, response |-> None])
    /\ UNCHANGED <<apiPrefs, apiCall, apiRequests, exVars, appVars>>

\* the caller takes the result or the error: the call is over
ApiReturn ==
    /\ IsSome(apiCall) /\ IsSome(apiOutcome)
    /\ apiCall' = None
    /\ apiRequests' = <<>>
    /\ apiOutcome' = None
    /\ UNCHANGED <<apiPrefs, exVars, appVars>>

NextApi ==
    \/ ApiCheckHealth
    \/ ApiListSessions
    \/ ApiCreateSession
    \/ ApiGetSession
    \/ ApiDeleteSession
    \/ ApiSendMessage
    \/ ApiGetMessages
    \/ ApiAbortSession
    \/ ApiSettle
    \/ ApiReturn

SpecApi == InitApi /\ [][NextApi]_vars

\* C11: a call of the transport has exactly one request behind it from its
\* start to its end, whatever the response; a response with a non-success
\* status makes the operation throw an error whose message ends in the
\* response's status text
C11_OneRequestNoRetry ==
    /\ Len(apiRequests) = (IF IsSome(apiCall) THEN 1 ELSE 0)
    /\ IsSome(apiOutcome) =>
          LET outcome == Val(apiOutcome) IN
          /\ IsSome(apiCall)
          /\ (IsSome(outcome.response) /\ Val(outcome.response) # "OK")
                => /\ outcome.kind = "threw"
                   /\ Len(outcome.message) = 2
                   /\ outcome.message[1] = FailurePrefix(Val(apiCall).op)
                   /\ outcome.message[2] = Val(outcome.response)
          /\ outcome.response = Some("OK") => outcome.kind = "returned"

\* deleteSession was answered Not Found: one request, the error carries the text
C11_Witness ==
    /\ IsSome(apiCall) /\ Val(apiCall).op = "deleteSession"
    /\ Len(apiRequests) = 1 /\ apiRequests[1].method = "DELETE"
    /\ IsSome(apiOutcome)
    /\ Val(apiOutcome).response = Some("Not Found")
    /\ Val(apiOutcome).message = <<"Failed to delete session: ", "Not Found">>

RECURSIVE Base64Decode(_)
\* the bytes a base64 text stands for, read back four characters at a time
Base64Decode(chars) ==
    IF Len(chars) < 4 THEN <<>>
    ELSE LET ix(c) == CHOOSE n \in 0..63 : B64Char(n) = c
             i1 == ix(chars[1])
             i2 == ix(chars[2])
             rest == SubSeq(chars, 5, Len(chars))
         IN  IF chars[3] = "=" THEN <<i1 * 4 + i2 \div 16>>
             ELSE IF chars[4] = "=" THEN
                 <<i1 * 4 + i2 \div 16, (i2 % 16) * 16 + ix(chars[3]) \div 4>>
             ELSE <<i1 * 4 + i2 \div 16,
                    (i2 % 16) * 16 + ix(chars[3]) \div 4,
                    (ix(chars[3]) % 4) * 64 + ix(chars[4])>> \o Base64Decode(rest)

\* C7: with a shared secret configured every request of every transport operation
\* carries Authorization: "Basic " followed by the base64 text of
\* "opencode:<secret>"; with none configured no request carries the header.
C7_AuthorizationHeader ==
    \A i \in 1..Len(apiRequests) :
        LET h == apiRequests[i].headers
            pw == apiPrefs.serverPassword
        IN  IF IsSome(pw) /\ Val(pw) # <<>>
            THEN /\ "Authorization" \in DOMAIN h
                 /\ Len(h["Authorization"]) > 6
                 /\ SubSeq(h["Authorization"], 1, 6) = <<"B", "a", "s", "i", "c", " ">>
                 /\ Base64Decode(SubSeq(h["Authorization"], 7, Len(h["Authorization"])))
                        = OpencodeColon \o Val(pw)
            ELSE "Authorization" \notin DOMAIN h

\* an abort request under the secret "s3": the header is Basic b3BlbmNvZGU6czM=
C7_Witness ==
    /\ apiPrefs.serverPassword = Some(<<115, 51>>)
    /\ IsSome(apiCall) /\ Val(apiCall).op = "abortSession"
    /\ Len(apiRequests) = 1
    /\ apiRequests[1].headers["Authorization"] =
          <<"B", "a", "s", "i", "c", " ", "b", "3", "B", "l", "b", "m", "N", "v",
            "Z", "G", "U", "6", "c", "z", "M", "=">>

RECURSIVE ParseDigits(_, _)
ParseDigits(str, acc) ==
    IF Len(str) = 0 THEN acc
    ELSE ParseDigits(Tail(str),
                     acc * 10 + (CHOOSE d \in 0..9 : Digits[d + 1] = str[1]))

\* the integer a decimal text stands for
ParseInt(str) ==
    IF Len(str) > 0 /\ str[1] = "-" THEN 0 - ParseDigits(Tail(str), 0)
    ELSE ParseDigits(str, 0)

\* C9: getMessages with limit 0 issues the request of getMessages without a
\* limit, GET /session/<id>/message with no query; with a non-zero limit N the
\* one query parameter is limit, holding N in decimal.
C9_GetMessagesLimit ==
    (IsSome(apiCall) /\ Val(apiCall).op = "getMessages") =>
        LET c == Val(apiCall)
            r == apiRequests[1]
        IN  /\ Len(apiRequests) = 1
            /\ r.method = "GET"
            /\ r.path = <<"session", c.sid, "message">>
            /\ IF c.limit = None \/ c.limit = Some(0)
               THEN r.query = <<>> /\ r = GetMessagesRequest(apiPrefs, c.sid, None)
               ELSE /\ Len(r.query) = 1
                    /\ r.query[1].key = "limit"
                    /\ ParseInt(r.query[1].value) = Val(c.limit)

C9_Witness ==
    /\ IsSome(apiCall) /\ Val(apiCall).op = "getMessages"
    /\ Val(apiCall).limit = Some(0)
    /\ Len(apiRequests) = 1
    /\ apiRequests[1].query = <<>>

-----------------------------------------------------------------------------
(* api.ts: extractTextFromParts *)

MaxParts == 3

NL == "\n"

\* a slip that would render a tool part's payload
PartContributionToolLeak(part) ==
    IF part.type = "text"
    THEN IF Truthy(part.text) THEN Val(part.text)
         ELSE IF Truthy(part.content) THEN Val(part.content)
         ELSE <<>>
    ELSE IF part.type = "tool-result" /\ Truthy(part.content) THEN Val(part.content)
    ELSE <<>>

\* a slip that would prefer content over text
PartContributionContentFirst(part) ==
    IF part.type = "text"
    THEN IF Truthy(part.content) THEN Val(part.content)
         ELSE IF Truthy(part.text) THEN Val(part.text)
         ELSE <<>>
    ELSE <<>>

\* the callback of parts.map(...)
PartContribution(part) ==
    IF part.type = "text"
    THEN IF Truthy(part.text) THEN Val(part.text)
         ELSE IF Truthy(part.content) THEN Val(part.content)
         ELSE <<>>
    ELSE IF part.type = "tool-invocation" \/ part.type = "tool-result"
    THEN <<>>
    ELSE <<>>

extractTextFromParts(ps) ==
    Join(FilterBoolean([i \in 1..Len(ps) |-> PartContribution(ps[i])]), <<NL>>)

OptText == {None, Some(<<>>), Some(<<"a">>)}
OptContent == {None, Some(<<>>), Some(<<"b">>)}
ToolTypes == {"tool-invocation", "tool-result"}

\* the part objects a message may carry: text parts with every combination of
\* text/content absent, empty or set; tool parts and a part of unrecognised type
\* with the fields absent or set
PartValues ==
    [type : {"text"}, text : OptText, content : OptContent]
    \cup [type : ToolTypes, text : {None, Some(<<"t">>)}, content : {None, Some(<<"u">>)}]
    \cup [type : {"step-start"}, text : {None, Some(<<"x">>)}, content : {None, Some(<<"y">>)}]

InitExtract ==
    /\ parts \in SeqsUpTo(PartValues, MaxParts)
    /\ extracted = None
    /\ ApiIdle
    /\ AppIdle

Extract ==
    /\ extracted = None
    /\ extracted' = Some(extractTextFromParts(parts))
    /\ UNCHANGED <<parts, apiVars, appVars>>

NextExtract == Extract

SpecExtract == InitExtract /\ [][NextExtract]_vars

PartChars == {"a", "b", "t", "u", "x", "y"}
ToolChars == {"t", "u"}

\* C3: extraction yields a string for every part sequence, and no tool-invocation
\* or tool-result part contributes a character: the result holds none of the
\* characters only tool parts carry and equals the extraction of the sequence
\* with the tool parts removed.
C3_ExtractTotalNoToolText ==
    IsSome(extracted) =>
        /\ Val(extracted) \in Seq(PartChars \cup {NL})
        /\ \A i \in 1..Len(Val(extracted)) : Val(extracted)[i] \notin ToolChars
        /\ Val(extracted) =
               extractTextFromParts(SelectSeq(parts, LAMBDA p : p.type \notin ToolTypes))

C3_Witness ==
    /\ IsSome(extracted)
    /\ Len(parts) = 3
    /\ parts[1].type = "tool-result" /\ parts[1].content = Some(<<"u">>)
    /\ parts[2].type = "text" /\ parts[2].text = Some(<<"a">>)
    /\ parts[3].type = "tool-invocation" /\ parts[3].text = Some(<<"t">>)
    /\ Val(extracted) = <<"a">>

\* the contribution of a part as the claim states it: content only when text is absent
ClaimedContribution(part) ==
    IF part.type = "text"
    THEN IF IsSome(part.text) THEN Val(part.text)
         ELSE IF IsSome(part.content) THEN Val(part.content)
         ELSE <<>>
    ELSE <<>>

\* the contribution of a part as amended: content when text is absent or empty
AmendedContribution(part) ==
    CASE part.type = "text" /\ IsSome(part.text) /\ Val(part.text) # <<>> -> Val(part.text)
      [] part.type = "text" /\ (part.text = None \/ part.text = Some(<<>>))
           /\ IsSome(part.content) -> Val(part.content)
      [] OTHER -> <<>>

RECURSIVE JoinedInOrder(_, _, _)
\* the contributions contrib[1..n] in input order, the empty ones skipped, one
\* newline between two that follow each other
JoinedInOrder(contrib, n, acc) ==
    IF n > Len(contrib) THEN acc
    ELSE JoinedInOrder(contrib, n + 1,
            IF contrib[n] = <<>> THEN acc
            ELSE IF acc = <<>> THEN contrib[n]
            ELSE acc \o <<NL>> \o contrib[n])

\* C4 as stated: the result is the in-order newline join of the non-empty
\* contributions, a text part contributing content if and only if text is absent.
C4_AsClaimed ==
    IsSome(extracted) =>
        Val(extracted) =
            JoinedInOrder([i \in 1..Len(parts) |-> ClaimedContribution(parts[i])], 1, <<>>)

\* C4 amended: the result is the in-order newline join of the non-empty
\* contributions, a text part contributing its text when that is present and
\* non-empty, otherwise its content when present, otherwise nothing; every other
\* part contributes nothing.
C4_ExtractJoin ==
    IsSome(extracted) =>
        Val(extracted) =
            JoinedInOrder([i \in 1..Len(parts) |-> AmendedContribution(parts[i])], 1, <<>>)

C4_Witness ==
    /\ IsSome(extracted)
    /\ Len(parts) = 3
    /\ parts[1].type = "text" /\ parts[1].text = Some(<<>>) /\ parts[1].content = Some(<<"b">>)
    /\ parts[2].type = "text" /\ parts[2].text = None /\ parts[2].content = None
    /\ parts[3].type = "text" /\ parts[3].text = Some(<<"a">>)
    /\ Val(extracted) = <<"b", NL, "a">>

-----------------------------------------------------------------------------
(* The OpenCode server, as the commands see it through the transport.       *)
(* A handler that awaits a request is suspended; the server handles the     *)
(* request and the handler resumes with the response in one later step, so  *)
(* requests overtake each other.  The server takes MaxSends messages and    *)
(* fails those that come after.                                             *)

MaxFlows == 2
MaxSessions == 2
MaxSends == 2

RemoveAt(seq, i) == SubSeq(seq, 1, i - 1) \o SubSeq(seq, i + 1, Len(seq))

\* the parts of the assistant's reply: none to a one-character prompt, a tool
\* part and a text to a longer one
ReplyParts(prompt) ==
    IF Len(prompt) <= 1 THEN <<>>
    ELSE <<[type |-> "tool-result", text |-> None, content |-> Some(<<"u">>)],
           [type |-> "text", text |-> Some(<<"r">>), content |-> None]>>

BaseResp ==
    [status |-> "ok", statusText |-> "OK", healthy |-> TRUE, session |-> NoSession,
     list |-> <<>>, parts |-> <<>>, msgs |-> <<>>, flag |-> TRUE]
HttpFail(st) == [BaseResp EXCEPT !.status = "http", !.statusText = st]
Refused(m) == [BaseResp EXCEPT !.status = "refused", !.statusText = m[1]]
\* a request can fail whatever it asks for
Failures == {HttpFail("Internal Server Error")}
\* a request that names a session the server does not hold
GoneFailures == {HttpFail("Not Found")}

Holds(s, sid) == \E i \in 1..Len(s.sessions) : s.sessions[i].id = sid

\* GET /global/health
HealthResults(s) ==
    {<<[BaseResp EXCEPT !.healthy = h], s>> : h \in BOOLEAN}
        \cup {<<f, s>> : f \in Failures \cup {Refused(m) : m \in NetworkErrorMessages}}

\* GET /session
ListResults(s) ==
    {<<[BaseResp EXCEPT !.list = s.sessions], s>>} \cup {<<f, s>> : f \in Failures}

\* POST /session: the next identifier, stamped with the clock, last in the list
CreateResults(s, title) ==
    LET new == [id |-> s.next + 1, title |-> Some(title), updatedAt |-> s.clock]
    IN  {<<[BaseResp EXCEPT !.session = new],
           [s EXCEPT !.sessions = Append(@, new), !.next = @ + 1,
                     !.msgs = Append(@, <<>>)]>>}
        \cup {<<f, s>> : f \in Failures}

\* POST /session/{id}/message: the prompt and the reply join the history and
\* the session's last update moves to a new clock value
SendResults(s, sid, prompt) ==
    LET reply == ReplyParts(prompt) IN
    IF Holds(s, sid) /\ s.clock < MaxSends
    THEN {<<[BaseResp EXCEPT !.parts = reply],
            [s EXCEPT !.clock = @ + 1,
                      !.sessions = [i \in 1..Len(@) |->
                                      IF @[i].id = sid
                                      THEN [@[i] EXCEPT !.updatedAt = s.clock + 1]
                                      ELSE @[i]],
                      !.msgs[sid] = @ \o
                          <<[role |-> "user",
                             parts |-> <<[type |-> "text", text |-> Some(prompt),
                                          content |-> None]>>],
                            [role |-> "assistant", parts |-> reply]>>]>>}
         \cup {<<f, s>> : f \in Failures}
    ELSE IF Holds(s, sid) THEN {<<f, s>> : f \in Failures}
    ELSE {<<f, s>> : f \in GoneFailures}

\* GET /session/{id}/message
MessagesResults(s, sid) ==
    IF Holds(s, sid)
    THEN {<<[BaseResp EXCEPT !.msgs = s.msgs[sid]], s>>} \cup {<<f, s>> : f \in Failures}
    ELSE {<<f, s>> : f \in GoneFailures}

\* DELETE /session/{id}
DeleteResults(s, sid) ==
    IF Holds(s, sid)
    THEN {<<BaseResp,
            [s EXCEPT !.sessions = SelectSeq(@, LAMBDA x : x.id # sid),
                      !.deleted = @ \cup {sid}]>>}
         \cup {<<f, s>> : f \in Failures}
    ELSE {<<f, s>> : f \in GoneFailures}

-----------------------------------------------------------------------------
(* What the handlers share *)

Whitespace == {" ", NL}

RECURSIVE TrimStart(_)
TrimStart(str) ==
    IF Len(str) > 0 /\ str[1] \in Whitespace THEN TrimStart(Tail(str)) ELSE str

RECURSIVE TrimEnd(_)
TrimEnd(str) ==
    IF Len(str) > 0 /\ str[Len(str)] \in Whitespace
    THEN TrimEnd(SubSeq(str, 1, Len(str) - 1))
    ELSE str

\* String.prototype.trim
Trim(str) == TrimEnd(TrimStart(str))

\* a slip that would test the prompt without trimming it
BlankPromptUntrimmed(prompt) == prompt = <<>>

\* `!values.prompt.trim()`
BlankPrompt(prompt) == Trim(prompt) = <<>>

\* what the user types into a prompt field
Prompts == {<<>>, <<" ">>, <<"a">>, <<" ", "b">>}

TitleLimit == 50

\* a slip that would pass the whole prompt on
SessionTitleWhole(prompt) == <<"R", "a", "y", "c", "a", "s", "t", ":", " ">> \o prompt

\* `Raycast: ${values.prompt.slice(0, 50)}`
SessionTitle(prompt) ==
    <<"R", "a", "y", "c", "a", "s", "t", ":", " ">>
        \o SubSeq(prompt, 1, IF Len(prompt) < TitleLimit THEN Len(prompt) ELSE TitleLimit)

\* a slip that would take a non-success status for a result
ThrowsOnRejectOnly(resp) == resp.status = "refused"

\* the transport throws: fetch rejected, or `!response.ok`
Throws(resp) == resp.status # "ok"

\* the message of the error an operation throws
ErrorMessage(op, resp) ==
    IF resp.status = "refused" THEN <<resp.statusText>>
    ELSE ThrownMessage(op, resp.statusText)

\* `message.includes("ECONNREFUSED") ? "OpenCode server not running. ..." : message`
RewriteRefused(message) ==
    IF message = <<"connect ECONNREFUSED 127.0.0.1:4096">>
    THEN <<"OpenCode server not running. Run opencode serve first.">>
    ELSE message

Toast(style, title, message) == [style |-> style, title |-> title, message |-> message]

\* the values of a model dropdown: `${provider.id}/${model.id}` of every model
DropdownItems(providers) ==
    UNION {{providers[i].id \o <<"/">> \o providers[i].models[j] :
               j \in 1..Len(providers[i].models)} : i \in 1..Len(providers)}

\* a request on its way: the operation, its session and what its body carries
Req(op, sid, prompt, model, title) ==
    [op |-> op, sid |-> sid, prompt |-> prompt, model |-> model, title |-> title]

\* what a handler closed over when it began: the form's values, the state of
\* the render it was made in, and the depths of the views it belongs to
Closure(prompt, model, cap, providers, view, parent) ==
    [prompt |-> prompt, model |-> model, cap |-> cap, providers |-> providers,
     view |-> view, parent |-> parent]
NoClosure == Closure(<<>>, None, None, <<>>, 0, 0)

\* a handler suspended at an await: the request it sent and its closure
Flow(kind, pc, req, c) ==
    [kind |-> kind, pc |-> pc, req |-> req,
     prompt |-> c.prompt, model |-> c.model, cap |-> c.cap, providers |-> c.providers,
     view |-> c.view, parent |-> c.parent]

\* a pushed view with its props and its own useState
View(kind, sid, conversation, cap, providers, selectedModel, isLoading) ==
    [kind |-> kind, sid |-> sid, conversation |-> conversation, cap |-> cap,
     providers |-> providers, selectedModel |-> selectedModel,
     messages |-> <<>>, isLoading |-> isLoading]

\* pop(): the view below the top one shows again
Popped(stk) == SubSeq(stk, 1, Len(stk) - 1)

\* handlers of a view that left the stack keep running; their setState is dropped
Orphaned(fl, depth) ==
    [j \in 1..Len(fl) |->
        [fl[j] EXCEPT !.view = IF @ = depth THEN 0 ELSE @,
                      !.parent = IF @ = depth THEN 0 ELSE @]]

\* setIsLoading of the view at a depth, if it is still on the stack
SetLoading(stk, depth, b) ==
    IF depth \in 1..Len(stk) THEN [stk EXCEPT ![depth].isLoading = b] ELSE stk

UserEntry(prompt) == [role |-> "user", content |-> prompt]
AssistantEntry(text, placeholder) ==
    [role |-> "assistant", content |-> IF text # <<>> THEN text ELSE <<placeholder>>]

\* more handlers may start while fewer than MaxFlows are suspended
RoomForFlow == Len(flows) < MaxFlows

-----------------------------------------------------------------------------
(* fetchProviders: the provider directory and the default selection *)

MaxProviders == 2

ModelIds == {<<"m">>, <<"n">>}
ProviderIds == {<<"A">>, <<"B">>}
Undefined == <<"u", "n", "d", "e", "f", "i", "n", "e", "d">>

\* a provider: its identifier and the keys of its models mapping, in key order
ProviderValues ==
    {[id |-> id, models |-> ms] :
        id \in ProviderIds,
        ms \in {<<>>, <<<<"m">>>>, <<<<"m">>, <<"n">>>>, <<<<"n">>, <<"m">>>>}}

\* the default map: provider identifier -> model identifier, for some providers
DefaultMaps == UNION {[ids -> ModelIds] : ids \in SUBSET ProviderIds}

\* GET (providers endpoint): {providers, default}, or a failure
ProvidersResp(status, providers, default) ==
    [status |-> status, providers |-> providers, default |-> default]
ProvidersFailure == ProvidersResp("http", <<>>, <<>>)
Directories(n) ==
    {ProvidersResp("ok", ps, d) : ps \in SeqsUpTo(ProviderValues, n), d \in DefaultMaps}

\* a slip that would start from the last provider
DefaultSelectionLastProvider(response) ==
    LET p == response.providers[Len(response.providers)]
    IN  p.id \o <<"/">> \o (IF p.models # <<>> THEN p.models[1] ELSE Undefined)

\* `response.default[firstProvider.id] || Object.keys(firstProvider.models)[0]`
\* behind `${firstProvider.id}/`
DefaultSelection(response) ==
    LET firstProvider == response.providers[1]
        entry == IF firstProvider.id \in DOMAIN response.default
                 THEN Some(response.default[firstProvider.id]) ELSE None
        defaultModelId ==
            IF Truthy(entry) THEN Val(entry)
            ELSE IF firstProvider.models # <<>> THEN firstProvider.models[1]
            ELSE Undefined
    IN  firstProvider.id \o <<"/">> \o defaultModelId

\* useState of the command that runs
Root == IF cmd = "ask" THEN ask ELSE browse

\* fetchProviders, from the response of listProviders on: setProviders, then
\* setSelectedModel if there is a first provider; a failure is only logged
FetchProvidersDone ==
    /\ cmd \in {"ask", "browse"}
    /\ provFetch # None
    /\ LET response == Val(provFetch)
           ok == response.status = "ok"
           np == IF ok THEN response.providers ELSE Root.providers
           ns == IF ok /\ response.providers # <<>>
                 THEN Some(DefaultSelection(response)) ELSE Root.selectedModel
       IN  /\ ask' = IF cmd = "ask"
                     THEN [ask EXCEPT !.providers = np, !.selectedModel = ns] ELSE ask
           /\ browse' = IF cmd = "browse"
                        THEN [browse EXCEPT !.providers = np, !.selectedModel = ns]
                        ELSE browse
    /\ provFetch' = None
    /\ UNCHANGED <<cmd, srv, stack, flows, toast>>
    /\ UNCHANGED <<exVars, apiVars>>

InitProviders ==
    /\ ExtractIdle /\ ApiIdle
    /\ cmd \in {"ask", "browse"}
    /\ srv = EmptyServer
    /\ ask = AskInitial
    /\ browse = BrowseInitial
    /\ stack = <<>>
    /\ flows = <<>>
    /\ provFetch \in {Some(r) : r \in Directories(MaxProviders) \cup {ProvidersFailure}}
    /\ toast = NoToast

NextProviders == FetchProvidersDone

SpecProviders == InitProviders /\ [][NextProviders]_vars

-----------------------------------------------------------------------------
(* ask-opencode.tsx: the Ask OpenCode command *)

MaxTranscript == 3

\* the directory the commands meet: a failure, no provider, or one provider
\* with one model
MainDirectory == ProvidersResp("ok", <<[id |-> <<"A">>, models |-> << <<"m">> >>]>>, <<>>)
EmptyDirectory == ProvidersResp("ok", <<>>, <<>>)
MainProviderResults == {ProvidersFailure, EmptyDirectory, MainDirectory}

\* values.model of a form: an item of its dropdown, undefined when it has none
FormModels(providers) ==
    IF providers = <<>> THEN {None} ELSE {Some(item) : item \in DropdownItems(providers)}

\* a start may begin while the sessions made and asked for stay below MaxSessions
StartBudget ==
    srv.next + Cardinality({i \in 1..Len(flows) : flows[i].kind = "submit"
                                                    /\ flows[i].pc # "send"})
        < MaxSessions

AskFormOnTop == cmd = "ask" /\ stack = <<>>
OnTop(kind) == stack # <<>> /\ stack[Len(stack)].kind = kind
Top == stack[Len(stack)]

\* the Model dropdown of the Ask form: onChange={setSelectedModel}
AskSelectModel ==
    /\ AskFormOnTop
    /\ \E item \in DropdownItems(ask.providers) :
         ask' = [ask EXCEPT !.selectedModel = Some(item)]
    /\ UNCHANGED <<cmd, srv, browse, stack, flows, provFetch, toast>>
    /\ UNCHANGED <<exVars, apiVars>>

\* AskOpenCode.handleSubmit up to `await api.checkHealth()`
AskSubmitWith(prompt) ==
    /\ AskFormOnTop
    /\ prompt \in Prompts
    /\ IF BlankPrompt(prompt)
       THEN /\ toast' = Toast("failure", "Please enter a prompt", <<>>)
            /\ UNCHANGED <<cmd, srv, ask, browse, stack, flows, provFetch>>
       ELSE LET modelToUse == IF ask.providers # <<>> THEN ask.selectedModel ELSE None
            IN  /\ RoomForFlow /\ StartBudget
                /\ flows' = Append(flows,
                       Flow("submit", "health", Req("checkHealth", 0, <<>>, None, None),
                            Closure(prompt, modelToUse, ask.currentSession,
                                    ask.providers, 0, 0)))
                /\ ask' = [ask EXCEPT !.isLoading = TRUE, !.selectedModel = modelToUse]
                /\ UNCHANGED <<cmd, srv, browse, stack, provFetch, toast>>
    /\ UNCHANGED <<exVars, apiVars>>

AskSubmit == \E prompt \in Prompts : AskSubmitWith(prompt)

\* the catch and the finally of AskOpenCode.handleSubmit
SubmitFails(i, message) ==
    /\ toast' = Toast("failure", "Failed to get response", RewriteRefused(message))
    /\ ask' = [ask EXCEPT !.isLoading = FALSE]
    /\ flows' = RemoveAt(flows, i)
    /\ UNCHANGED stack

\* a slip that would go on with a server that reports itself unhealthy
NotHealthyIgnored(health) == FALSE

\* `if (!health.healthy)`
NotHealthy(health) == ~health.healthy

\* from the health response to `await api.createSession(...)`
AskHealthDoneAt(i, r) ==
    /\ cmd = "ask"
    /\ i \in 1..Len(flows)
    /\ flows[i].kind = "submit" /\ flows[i].pc = "health"
    /\ r \in HealthResults(srv)
    /\ srv' = r[2]
    /\ LET f == flows[i]
           health == r[1]
       IN  IF Throws(health)
           THEN SubmitFails(i, ErrorMessage("checkHealth", health))
           ELSE IF NotHealthy(health)
           THEN SubmitFails(i, <<"OpenCode server is not healthy">>)
           ELSE /\ toast' = Toast("animated", "Creating session...", <<>>)
                /\ flows' = [flows EXCEPT ![i] =
                       [f EXCEPT !.pc = "create",
                                 !.req = Req("createSession", 0, <<>>, None,
                                             Some(SessionTitle(f.prompt)))]]
                /\ UNCHANGED <<ask, stack>>
    /\ UNCHANGED <<cmd, browse, provFetch>>
    /\ UNCHANGED <<exVars, apiVars>>

AskHealthDone ==
    \E i \in 1..Len(flows) : \E r \in HealthResults(srv) : AskHealthDoneAt(i, r)

\* from the created session to `await api.sendMessage(session.id, ...)`
AskCreateDoneAt(i, r) ==
    /\ cmd = "ask"
    /\ i \in 1..Len(flows)
    /\ flows[i].kind = "submit" /\ flows[i].pc = "create"
    /\ r \in CreateResults(srv, Val(flows[i].req.title))
    /\ srv' = r[2]
    /\ LET f == flows[i]
           session == r[1].session
       IN  IF Throws(r[1])
           THEN SubmitFails(i, ErrorMessage("createSession", r[1]))
           ELSE /\ ask' = [ask EXCEPT !.currentSession = Some(session),
                                      !.conversation = <<UserEntry(f.prompt)>>]
                /\ toast' = Toast("animated", "Sending to OpenCode...", <<>>)
                /\ flows' = [flows EXCEPT ![i] =
                       [f EXCEPT !.pc = "send",
                                 !.req = Req("sendMessage", session.id, f.prompt,
                                             SplitModel(f.model), None)]]
                /\ UNCHANGED stack
    /\ UNCHANGED <<cmd, browse, provFetch>>
    /\ UNCHANGED <<exVars, apiVars>>

AskCreateDone ==
    \E i \in 1..Len(flows) :
        \E r \in CreateResults(srv, SessionTitle(flows[i].prompt)) : AskCreateDoneAt(i, r)

\* a slip that would show an empty reply as it is
FirstExchangeAsReplied(conversation, prompt, text) ==
    <<UserEntry(prompt), [role |-> "assistant", content |-> text]>>

\* `newConversation = [userMessage, assistantMessage]`
FirstExchange(conversation, prompt, text) ==
    <<UserEntry(prompt), AssistantEntry(text, "No response received")>>

\* from the reply to the end of AskOpenCode.handleSubmit: the transcript, the
\* pushed ConversationView (with the sendMessage of the render that submitted)
AskSendDoneAt(i, r) ==
    /\ cmd = "ask"
    /\ i \in 1..Len(flows)
    /\ flows[i].kind = "submit" /\ flows[i].pc = "send"
    /\ r \in SendResults(srv, flows[i].req.sid, flows[i].req.prompt)
    /\ srv' = r[2]
    /\ LET f == flows[i]
           newConversation ==
               FirstExchange(ask.conversation, f.prompt, extractTextFromParts(r[1].parts))
       IN  IF Throws(r[1])
           THEN SubmitFails(i, ErrorMessage("sendMessage", r[1]))
           ELSE /\ ask' = [ask EXCEPT !.conversation = newConversation,
                                      !.isLoading = FALSE]
                /\ toast' = Toast("success", "Response received", <<>>)
                /\ stack' = Append(stack,
                       View("conversation", f.req.sid, newConversation, f.cap,
                            f.providers, f.model, FALSE))
                /\ flows' = RemoveAt(flows, i)
    /\ UNCHANGED <<cmd, browse, provFetch>>
    /\ UNCHANGED <<exVars, apiVars>>

AskSendDone ==
    \E i \in 1..Len(flows) :
        \E r \in SendResults(srv, flows[i].req.sid, flows[i].req.prompt) :
            AskSendDoneAt(i, r)

\* ConversationView.handleContinue: push the form with the view's own props
AskContinue ==
    /\ OnTop("conversation")
    /\ stack' = Append(stack,
           View("continueConversation", Top.sid, Top.conversation, Top.cap,
                Top.providers, Top.selectedModel, FALSE))
    /\ UNCHANGED <<cmd, srv, ask, browse, flows, provFetch, toast>>
    /\ UNCHANGED <<exVars, apiVars>>

\* ContinueConversation.handleSubmit with AskOpenCode.sendMessage up to
\* `await api.sendMessage(currentSession.id, ...)`; currentSession is the one
\* of the render whose sendMessage was pushed
AskContinueSubmitWith(prompt, model) ==
    /\ OnTop("continueConversation")
    /\ prompt \in Prompts /\ model \in FormModels(Top.providers)
    /\ IF BlankPrompt(prompt)
       THEN /\ toast' = Toast("failure", "Please enter a message", <<>>)
            /\ UNCHANGED <<cmd, srv, ask, browse, stack, flows, provFetch>>
       ELSE IF Top.cap = None
       THEN /\ ask' = [ask EXCEPT !.selectedModel = model]
            /\ toast' = Toast("failure", "Failed to send message", <<"No active session">>)
            /\ UNCHANGED <<cmd, srv, browse, stack, flows, provFetch>>
       ELSE /\ RoomForFlow
            /\ Len(ask.conversation) < MaxTranscript
            /\ ask' = [ask EXCEPT !.selectedModel = model,
                                  !.conversation = Append(@, UserEntry(prompt))]
            /\ stack' = SetLoading(stack, Len(stack), TRUE)
            /\ toast' = Toast("animated", "Sending to OpenCode...", <<>>)
            /\ flows' = Append(flows,
                   Flow("continue", "send",
                        Req("sendMessage", Val(Top.cap).id, prompt, SplitModel(model), None),
                        Closure(prompt, model, Top.cap, Top.providers, Len(stack), 0)))
            /\ UNCHANGED <<cmd, srv, browse, provFetch>>
    /\ UNCHANGED <<exVars, apiVars>>

AskContinueSubmit ==
    /\ OnTop("continueConversation")
    /\ \E prompt \in Prompts, model \in FormModels(Top.providers) :
         AskContinueSubmitWith(prompt, model)

\* from the reply to the end of ContinueConversation.handleSubmit
AskContinueDoneAt(i, r) ==
    /\ cmd = "ask"
    /\ i \in 1..Len(flows)
    /\ flows[i].kind = "continue"
    /\ r \in SendResults(srv, flows[i].req.sid, flows[i].req.prompt)
    /\ srv' = r[2]
    /\ LET f == flows[i]
           rest == RemoveAt(flows, i)
       IN  IF Throws(r[1])
           THEN /\ toast' = Toast("failure", "Failed to send message",
                                  ErrorMessage("sendMessage", r[1]))
                /\ stack' = SetLoading(stack, f.view, FALSE)
                /\ flows' = rest
                /\ UNCHANGED ask
           ELSE /\ ask' = [ask EXCEPT !.conversation =
                              Append(@, AssistantEntry(extractTextFromParts(r[1].parts),
                                                       "No response"))]
                /\ toast' = Toast("success", "Response received", <<>>)
                /\ stack' = Popped(SetLoading(stack, f.view, FALSE))
                /\ flows' = Orphaned(rest, Len(stack))
    /\ UNCHANGED <<cmd, browse, provFetch>>
    /\ UNCHANGED <<exVars, apiVars>>

AskContinueDone ==
    \E i \in 1..Len(flows) :
        \E r \in SendResults(srv, flows[i].req.sid, flows[i].req.prompt) :
            AskContinueDoneAt(i, r)

\* the user leaves the top view
Pop ==
    /\ stack # <<>>
    /\ stack' = Popped(stack)
    /\ flows' = Orphaned(flows, Len(stack))
    /\ UNCHANGED <<cmd, srv, ask, browse, provFetch, toast>>
    /\ UNCHANGED <<exVars, apiVars>>

-----------------------------------------------------------------------------
(* list-opencode-sessions.tsx: the List OpenCode Sessions command *)

RECURSIVE InsertByUpdatedFirst(_, _)
\* a slip that would put a session before those of its own timestamp
InsertByUpdatedFirst(sorted, x) ==
    IF sorted = <<>> THEN <<x>>
    ELSE IF sorted[1].updatedAt > x.updatedAt
    THEN <<sorted[1]>> \o InsertByUpdatedFirst(Tail(sorted), x)
    ELSE <<x>> \o sorted

RECURSIVE InsertByUpdated(_, _)
\* x goes behind every session the comparator does not order after it:
\* `new Date(b.updatedAt).getTime() - new Date(a.updatedAt).getTime()` <= 0
InsertByUpdated(sorted, x) ==
    IF sorted = <<>> THEN <<x>>
    ELSE IF x.updatedAt - sorted[1].updatedAt <= 0
    THEN <<sorted[1]>> \o InsertByUpdated(Tail(sorted), x)
    ELSE <<x>> \o sorted

RECURSIVE SortByUpdatedWith(_, _)
SortByUpdatedWith(list, n) ==
    IF n = 0 THEN <<>> ELSE InsertByUpdated(SortByUpdatedWith(list, n - 1), list[n])

\* Array.prototype.sort (stable) with the comparator of loadSessions; updatedAt
\* stands for the instant `new Date(updatedAt).getTime()` yields
SortByUpdated(list) == SortByUpdatedWith(list, Len(list))

\* the server a command meets: sessions made earlier, none used since
ServerWith(stamps) ==
    [sessions |-> [i \in 1..Len(stamps) |->
                      [id |-> i, title |-> None, updatedAt |-> stamps[i]]],
     deleted |-> {}, next |-> Len(stamps), clock |-> 0,
     msgs |-> [i \in 1..Len(stamps) |-> <<>>]]

\* the server List OpenCode Sessions meets: one session, made by an earlier
\* Ask OpenCode that sent "a" and got its reply
ServerAfterAsk ==
    LET created == CHOOSE r \in CreateResults(EmptyServer, SessionTitle(<<"a">>)) :
                       ~Throws(r[1])
        sent == CHOOSE r \in SendResults(created[2], created[1].session.id, <<"a">>) :
                    ~Throws(r[1])
    IN  sent[2]

\* loadSessions up to `await api.checkHealth()`
LoadSessionsFlow ==
    Flow("loadSessions", "health", Req("checkHealth", 0, <<>>, None, None), NoClosure)

BrowseListOnTop == cmd = "browse" /\ stack = <<>> /\ browse.isServerOnline # Some(FALSE)
BrowseOfflineOnTop == cmd = "browse" /\ stack = <<>> /\ browse.isServerOnline = Some(FALSE)

\* Refresh on a list item, Retry on the offline view: loadSessions
BrowseRefresh ==
    /\ \/ BrowseListOnTop /\ browse.sessions # <<>>
       \/ BrowseOfflineOnTop
    /\ RoomForFlow
    /\ browse' = [browse EXCEPT !.isLoading = TRUE]
    /\ flows' = Append(flows, LoadSessionsFlow)
    /\ UNCHANGED <<cmd, srv, ask, stack, provFetch, toast>>
    /\ UNCHANGED <<exVars, apiVars>>

\* the catch and the finally of loadSessions
LoadSessionsFails(i, message) ==
    /\ browse' = [browse EXCEPT !.isServerOnline = Some(FALSE), !.isLoading = FALSE]
    /\ toast' = Toast("failure", "Failed to load sessions", RewriteRefused(message))
    /\ flows' = RemoveAt(flows, i)

\* loadSessions from the health response to `await api.listSessions()`
BrowseHealthDoneAt(i, r) ==
    /\ cmd = "browse"
    /\ i \in 1..Len(flows)
    /\ flows[i].kind = "loadSessions" /\ flows[i].pc = "health"
    /\ r \in HealthResults(srv)
    /\ srv' = r[2]
    /\ IF Throws(r[1])
       THEN LoadSessionsFails(i, ErrorMessage("checkHealth", r[1]))
       ELSE /\ browse' = [browse EXCEPT !.isServerOnline = Some(TRUE)]
            /\ flows' = [flows EXCEPT ![i] =
                   [@ EXCEPT !.pc = "list",
                             !.req = Req("listSessions", 0, <<>>, None, None)]]
            /\ UNCHANGED toast
    /\ UNCHANGED <<cmd, ask, stack, provFetch>>
    /\ UNCHANGED <<exVars, apiVars>>

BrowseHealthDone ==
    \E i \in 1..Len(flows) : \E r \in HealthResults(srv) : BrowseHealthDoneAt(i, r)

\* a slip that would keep a list once one is shown
SetSessionsIfEmpty(shown, sorted) == IF shown = <<>> THEN sorted ELSE shown

\* `setSessions(sorted)`: the list shown is replaced, whatever it was
SetSessions(shown, sorted) == sorted

\* loadSessions from the session list to its end
BrowseListDoneAt(i, r) ==
    /\ cmd = "browse"
    /\ i \in 1..Len(flows)
    /\ flows[i].kind = "loadSessions" /\ flows[i].pc = "list"
    /\ r \in ListResults(srv)
    /\ srv' = r[2]
    /\ IF Throws(r[1])
       THEN LoadSessionsFails(i, ErrorMessage("listSessions", r[1]))
       ELSE /\ browse' = [browse EXCEPT !.sessions = SetSessions(@, SortByUpdated(r[1].list)),
                                        !.isLoading = FALSE]
            /\ flows' = RemoveAt(flows, i)
            /\ UNCHANGED toast
    /\ UNCHANGED <<cmd, ask, stack, provFetch>>
    /\ UNCHANGED <<exVars, apiVars>>

BrowseListDone ==
    \E i \in 1..Len(flows) : \E r \in ListResults(srv) : BrowseListDoneAt(i, r)

\* loadMessages of the SessionDetail at a depth, up to `await api.getMessages`
LoadMessagesFlow(sid, depth) ==
    Flow("loadMessages", "messages", Req("getMessages", sid, <<>>, None, None),
         Closure(<<>>, None, None, <<>>, depth, 0))

\* Open Session: push SessionDetail; its mount effect runs loadMessages
BrowseOpen ==
    /\ BrowseListOnTop
    /\ RoomForFlow
    /\ \E k \in 1..Len(browse.sessions) :
         LET session == browse.sessions[k] IN
         /\ stack' = Append(stack,
                View("sessionDetail", session.id, <<>>, None, browse.providers,
                     browse.selectedModel, TRUE))
         /\ flows' = Append(flows, LoadMessagesFlow(session.id, 1))
    /\ UNCHANGED <<cmd, srv, ask, browse, provFetch, toast>>
    /\ UNCHANGED <<exVars, apiVars>>

\* Refresh on SessionDetail: loadMessages
DetailRefresh ==
    /\ cmd = "browse" /\ OnTop("sessionDetail")
    /\ RoomForFlow
    /\ stack' = SetLoading(stack, Len(stack), TRUE)
    /\ flows' = Append(flows, LoadMessagesFlow(Top.sid, Len(stack)))
    /\ UNCHANGED <<cmd, srv, ask, browse, provFetch, toast>>
    /\ UNCHANGED <<exVars, apiVars>>

\* loadMessages from the response to its end
LoadMessagesDoneAt(i, r) ==
    /\ cmd = "browse"
    /\ i \in 1..Len(flows)
    /\ flows[i].kind = "loadMessages"
    /\ r \in MessagesResults(srv, flows[i].req.sid)
    /\ srv' = r[2]
    /\ LET f == flows[i] IN
       IF Throws(r[1])
       THEN /\ toast' = Toast("failure", "Failed to load messages",
                              ErrorMessage("getMessages", r[1]))
            /\ stack' = SetLoading(stack, f.view, FALSE)
       ELSE /\ stack' = IF f.view \in 1..Len(stack)
                        THEN [stack EXCEPT ![f.view].messages = r[1].msgs,
                                           ![f.view].isLoading = FALSE]
                        ELSE stack
            /\ UNCHANGED toast
    /\ flows' = RemoveAt(flows, i)
    /\ UNCHANGED <<cmd, ask, browse, provFetch>>
    /\ UNCHANGED <<exVars, apiVars>>

LoadMessagesDone ==
    \E i \in 1..Len(flows) :
        \E r \in MessagesResults(srv, flows[i].req.sid) : LoadMessagesDoneAt(i, r)

DeleteFlow(kind, sid) ==
    Flow(kind, "delete", Req("deleteSession", sid, <<>>, None, None), NoClosure)

\* Delete Session on a list item, up to `await api.deleteSession(session.id)`
BrowseDelete ==
    /\ BrowseListOnTop
    /\ RoomForFlow
    /\ \E k \in 1..Len(browse.sessions) :
         flows' = Append(flows, DeleteFlow("deleteFromList", browse.sessions[k].id))
    /\ UNCHANGED <<cmd, srv, ask, browse, stack, provFetch, toast>>
    /\ UNCHANGED <<exVars, apiVars>>

\* Delete Session on SessionDetail, up to `await api.deleteSession(session.id)`
DetailDelete ==
    /\ cmd = "browse" /\ OnTop("sessionDetail")
    /\ RoomForFlow
    /\ flows' = Append(flows, DeleteFlow("deleteFromDetail", Top.sid))
    /\ UNCHANGED <<cmd, srv, ask, browse, stack, provFetch, toast>>
    /\ UNCHANGED <<exVars, apiVars>>

\* a slip that would reload the list after a delete on the detail view too
ReloadsAfterDeleteAlways(kind) == TRUE

\* `loadSessions();` follows the success toast in the list's action only
ReloadsAfterDelete(kind) == kind = "deleteFromList"

\* both Delete Session actions from the response on; the one of the list goes
\* on into loadSessions
DeleteDoneAt(i, r) ==
    /\ cmd = "browse"
    /\ i \in 1..Len(flows)
    /\ flows[i].pc = "delete"
    /\ r \in DeleteResults(srv, flows[i].req.sid)
    /\ srv' = r[2]
    /\ LET f == flows[i]
           rest == RemoveAt(flows, i)
       IN  IF Throws(r[1])
           THEN /\ toast' = Toast("failure", "Failed to delete",
                                  ErrorMessage("deleteSession", r[1]))
                /\ flows' = rest
                /\ UNCHANGED browse
           ELSE /\ toast' = Toast("success", "Session deleted", <<>>)
                /\ IF ReloadsAfterDelete(f.kind)
                   THEN /\ browse' = [browse EXCEPT !.isLoading = TRUE]
                        /\ flows' = Append(rest, LoadSessionsFlow)
                   ELSE /\ flows' = rest
                        /\ UNCHANGED browse
    /\ UNCHANGED <<cmd, ask, stack, provFetch>>
    /\ UNCHANGED <<exVars, apiVars>>

DeleteDone ==
    \E i \in 1..Len(flows) :
        \E r \in DeleteResults(srv, flows[i].req.sid) : DeleteDoneAt(i, r)

\* Continue Conversation on SessionDetail: push ContinueSession with the
\* detail's props and the messages it shows
DetailContinue ==
    /\ cmd = "browse" /\ OnTop("sessionDetail")
    /\ stack' = Append(stack,
           [View("continueSession", Top.sid, <<>>, None, Top.providers,
                 Top.selectedModel, FALSE) EXCEPT !.messages = Top.messages])
    /\ UNCHANGED <<cmd, srv, ask, browse, flows, provFetch, toast>>
    /\ UNCHANGED <<exVars, apiVars>>

\* ContinueSession.handleSubmit up to `await api.sendMessage(session.id, ...)`
ContinueSessionSubmitWith(prompt, model) ==
    /\ cmd = "browse" /\ OnTop("continueSession")
    /\ prompt \in Prompts /\ model \in FormModels(Top.providers)
    /\ IF BlankPrompt(prompt)
       THEN /\ toast' = Toast("failure", "Please enter a message", <<>>)
            /\ UNCHANGED <<cmd, srv, ask, browse, stack, flows, provFetch>>
       ELSE /\ RoomForFlow
            /\ stack' = SetLoading(stack, Len(stack), TRUE)
            /\ browse' = [browse EXCEPT !.selectedModel = model]
            /\ toast' = Toast("animated", "Sending message...", <<>>)
            /\ flows' = Append(flows,
                   Flow("continueSession", "send",
                        Req("sendMessage", Top.sid, prompt, SplitModel(model), None),
                        Closure(prompt, model, None, Top.providers,
                                Len(stack), Len(stack) - 1)))
            /\ UNCHANGED <<cmd, srv, ask, provFetch>>
    /\ UNCHANGED <<exVars, apiVars>>

ContinueSessionSubmit ==
    /\ OnTop("continueSession")
    /\ \E prompt \in Prompts, model \in FormModels(Top.providers) :
         ContinueSessionSubmitWith(prompt, model)

\* ContinueSession.handleSubmit from the reply on: the toast, onNewMessage
\* (loadMessages of the detail below, not awaited), pop, setIsLoading(false)
ContinueSessionDoneAt(i, r) ==
    /\ cmd = "browse"
    /\ i \in 1..Len(flows)
    /\ flows[i].kind = "continueSession"
    /\ r \in SendResults(srv, flows[i].req.sid, flows[i].req.prompt)
    /\ srv' = r[2]
    /\ LET f == flows[i]
           rest == RemoveAt(flows, i)
       IN  IF Throws(r[1])
           THEN /\ toast' = Toast("failure", "Failed to send message",
                                  ErrorMessage("sendMessage", r[1]))
                /\ stack' = SetLoading(stack, f.view, FALSE)
                /\ flows' = rest
           ELSE /\ toast' = Toast("success", "Message sent", <<>>)
                /\ stack' = Popped(SetLoading(SetLoading(stack, f.parent, TRUE),
                                              f.view, FALSE))
                /\ flows' = Orphaned(Append(rest, LoadMessagesFlow(f.req.sid, f.parent)),
                                     Len(stack))
    /\ UNCHANGED <<cmd, ask, browse, provFetch>>
    /\ UNCHANGED <<exVars, apiVars>>

ContinueSessionDone ==
    \E i \in 1..Len(flows) :
        \E r \in SendResults(srv, flows[i].req.sid, flows[i].req.prompt) :
            ContinueSessionDoneAt(i, r)

-----------------------------------------------------------------------------
(* The two commands against a server *)

Init ==
    /\ ExtractIdle /\ ApiIdle
    /\ cmd \in {"ask", "browse"}
    /\ srv = IF cmd = "ask" THEN EmptyServer ELSE ServerAfterAsk
    /\ ask = AskInitial
    /\ browse = BrowseInitial
    /\ stack = <<>>
    /\ flows = IF cmd = "ask" THEN <<>> ELSE <<LoadSessionsFlow>>
    /\ provFetch \in {Some(r) : r \in MainProviderResults}
    /\ toast = NoToast

Next ==
    \/ FetchProvidersDone
    \/ AskSelectModel \/ AskSubmit \/ AskHealthDone \/ AskCreateDone \/ AskSendDone
    \/ AskContinue \/ AskContinueSubmit \/ AskContinueDone
    \/ Pop
    \/ BrowseRefresh \/ BrowseHealthDone \/ BrowseListDone
    \/ BrowseOpen \/ DetailRefresh \/ LoadMessagesDone
    \/ BrowseDelete \/ DetailDelete \/ DeleteDone
    \/ DetailContinue \/ ContinueSessionSubmit \/ ContinueSessionDone

Spec == Init /\ [][Next]_vars

\* C1: a Start conversation whose health check, session creation and first
\* send succeeded ends with a transcript of exactly two entries: the user's
\* prompt as typed, then the text extracted from the reply, or the placeholder
\* when the extraction is empty
C1_StartTranscript ==
    [][\A i \in 1..Len(flows) :
         \A r \in SendResults(srv, flows[i].req.sid, flows[i].req.prompt) :
           (AskSendDoneAt(i, r) /\ r[1].status = "ok")
           => LET text == extractTextFromParts(r[1].parts) IN
              /\ Trim(flows[i].prompt) # <<>>
              /\ Len(ask'.conversation) = 2
              /\ ask'.conversation[1] = [role |-> "user", content |-> flows[i].prompt]
              /\ ask'.conversation[2] =
                     [role |-> "assistant",
                      content |-> IF text = <<>> THEN <<"No response received">> ELSE text]
      ]_vars

\* a start with the prompt " b" ended: the transcript is the prompt and "r"
C1_Witness ==
    /\ cmd = "ask" /\ OnTop("conversation")
    /\ toast = Toast("success", "Response received", <<>>)
    /\ ~ask.isLoading /\ flows = <<>>
    /\ ask.conversation = <<[role |-> "user", content |-> <<" ", "b">>],
                            [role |-> "assistant", content |-> <<"r">>]>>

\* C2: submitting a prompt that is empty or only whitespace, in the Ask form
\* and in both continue forms, sends no request, reports a validation failure
\* and leaves session, transcript, views and loading flags as they were
C2_BlankPromptRejected ==
    [][\A prompt \in Prompts :
         Trim(prompt) = <<>> =>
           /\ AskSubmitWith(prompt)
                => /\ UNCHANGED <<srv, flows, ask, browse, stack>>
                   /\ toast' = [style |-> "failure", title |-> "Please enter a prompt",
                                message |-> <<>>]
           /\ \A model \in (IF stack # <<>> THEN FormModels(Top.providers) ELSE {}) :
                (AskContinueSubmitWith(prompt, model)
                    \/ ContinueSessionSubmitWith(prompt, model))
                => /\ UNCHANGED <<srv, flows, ask, browse, stack>>
                   /\ toast' = [style |-> "failure", title |-> "Please enter a message",
                                message |-> <<>>]
      ]_vars

\* a blank message was turned down in the continue form of a started conversation
C2_Witness ==
    /\ cmd = "ask" /\ OnTop("continueConversation")
    /\ toast = Toast("failure", "Please enter a message", <<>>)
    /\ IsSome(ask.currentSession) /\ Len(ask.conversation) = 2
    /\ ~Top.isLoading /\ flows = <<>>

\* C8: once the server has deleted a session, every operation on its id that
\* the client then gets answered (delete, get messages, send) ends in that
\* operation's failure toast, changes nothing on the server or in the list,
\* and the handler ends there
C8_DeletedIsTerminal ==
    [][\A i \in 1..Len(flows) :
         LET sid == flows[i].req.sid IN
         sid \in srv.deleted =>
           /\ \A r \in DeleteResults(srv, sid) :
                DeleteDoneAt(i, r)
                => /\ toast'.style = "failure" /\ toast'.title = "Failed to delete"
                   /\ flows' = RemoveAt(flows, i)
                   /\ UNCHANGED <<srv, browse, stack>>
           /\ \A r \in MessagesResults(srv, sid) :
                LoadMessagesDoneAt(i, r)
                => /\ toast'.style = "failure" /\ toast'.title = "Failed to load messages"
                   /\ flows' = RemoveAt(flows, i)
                   /\ \A d \in 1..Len(stack) : stack'[d].messages = stack[d].messages
                   /\ UNCHANGED <<srv, browse>>
           /\ \A r \in SendResults(srv, sid, flows[i].req.prompt) :
                ContinueSessionDoneAt(i, r)
                => /\ toast'.style = "failure" /\ toast'.title = "Failed to send message"
                   /\ flows' = RemoveAt(flows, i)
                   /\ Len(stack') = Len(stack)
                   /\ UNCHANGED <<srv, browse>>
      ]_vars

\* the session was deleted and a second delete of it was answered Not Found
C8_Witness ==
    /\ cmd = "browse"
    /\ srv.deleted = {1}
    /\ toast = Toast("failure", "Failed to delete",
                     <<FailurePrefix("deleteSession"), "Not Found">>)

\* C12: a non-blank message submitted from the continue form of a started
\* conversation is appended to the transcript as the user's entry in the step
\* that sends it; a reply appends the assistant's entry right behind that
\* entry; a failed send leaves the transcript with the user's entry, adds
\* no assistant entry and shows the error
C12_AsClaimed ==
    [][/\ \A prompt \in Prompts :
            \A model \in (IF OnTop("continueConversation")
                          THEN FormModels(Top.providers) ELSE {}) :
              (AskContinueSubmitWith(prompt, model) /\ Trim(prompt) # <<>>)
              => /\ ask'.conversation = Append(ask.conversation, UserEntry(prompt))
                 /\ Len(flows') = Len(flows) + 1
                 /\ flows'[Len(flows')].req.op = "sendMessage"
                 /\ flows'[Len(flows')].req.prompt = prompt
       /\ \A i \in 1..Len(flows) :
            \A r \in SendResults(srv, flows[i].req.sid, flows[i].req.prompt) :
              AskContinueDoneAt(i, r)
              => LET n == Len(ask.conversation) IN
                 /\ n > 0
                 /\ ask.conversation[n] = UserEntry(flows[i].prompt)
                 /\ IF r[1].status = "ok"
                    THEN /\ Len(ask'.conversation) = n + 1
                         /\ SubSeq(ask'.conversation, 1, n) = ask.conversation
                         /\ ask'.conversation[n + 1].role = "assistant"
                    ELSE /\ ask'.conversation = ask.conversation
                         /\ toast'.style = "failure"
                         /\ toast'.title = "Failed to send message"
                         /\ toast'.message = <<FailurePrefix("sendMessage"),
                                                r[1].statusText>>
      ]_vars

\* the first conversation is open with its two entries, the continue form was
\* submitted with a message, and the answer is that there is no session
C12_Refused ==
    /\ cmd = "ask" /\ OnTop("continueConversation")
    /\ Top.cap = None
    /\ IsSome(ask.currentSession)
    /\ Len(ask.conversation) = 2
    /\ toast = Toast("failure", "Failed to send message", <<"No active session">>)
    /\ flows = <<>> /\ srv.clock = 1

\* C13: a failed operation leaves the client state it found. In the Ask
\* command, as long as no first message was ever answered and no handler is
\* suspended, every start so far has failed, so there is no current session
\* and the transcript is empty; in the Browse command a failed step of
\* loadSessions leaves the list and the server-online flag, and a failed
\* loadMessages leaves the messages of every view
C13_AsClaimed ==
    /\ []((cmd = "ask" /\ flows = <<>> /\ srv.clock = 0)
            => (ask.currentSession = None /\ ask.conversation = <<>>))
    /\ [][\A i \in 1..Len(flows) :
            /\ \A r \in HealthResults(srv) :
                 (BrowseHealthDoneAt(i, r) /\ r[1].status # "ok")
                 => /\ browse'.sessions = browse.sessions
                    /\ browse'.isServerOnline = browse.isServerOnline
            /\ \A r \in ListResults(srv) :
                 (BrowseListDoneAt(i, r) /\ r[1].status # "ok")
                 => /\ browse'.sessions = browse.sessions
                    /\ browse'.isServerOnline = browse.isServerOnline
            /\ \A r \in MessagesResults(srv, flows[i].req.sid) :
                 (LoadMessagesDoneAt(i, r) /\ r[1].status # "ok")
                 => \A d \in 1..Len(stack) : stack'[d].messages = stack[d].messages
         ]_vars

\* a start whose first send failed has ended: the session it created is the
\* current one and its prompt is in the transcript
C13_LeftBehind ==
    /\ cmd = "ask" /\ flows = <<>> /\ srv.clock = 0
    /\ toast.style = "failure" /\ toast.title = "Failed to get response"
    /\ toast.message = <<FailurePrefix("sendMessage"), "Internal Server Error">>
    /\ IsSome(ask.currentSession)
    /\ Len(ask.conversation) = 1 /\ ask.conversation[1].role = "user"

\* C14: when the health check of a start throws or answers healthy = false,
\* the handler ends in that step with the failure toast and its error
\* message: its request is gone, no create-session or send-message request
\* takes its place, and the server has created nothing
C14_UnhealthyStops ==
    [][\A i \in 1..Len(flows) :
         \A r \in HealthResults(srv) :
           (AskHealthDoneAt(i, r) /\ (r[1].status # "ok" \/ ~r[1].healthy))
           => /\ flows' = RemoveAt(flows, i)
              /\ toast'.style = "failure"
              /\ toast'.title = "Failed to get response"
              /\ toast'.message # <<>>
              /\ srv' = srv
              /\ ask'.currentSession = ask.currentSession
              /\ ask'.conversation = ask.conversation
      ]_vars

\* a start was turned down by a server that answered healthy = false; no
\* session was ever created
C14_Witness ==
    /\ cmd = "ask" /\ flows = <<>>
    /\ toast = Toast("failure", "Failed to get response",
                     <<"OpenCode server is not healthy">>)
    /\ srv.next = 0 /\ srv.sessions = <<>>
    /\ ask.currentSession = None /\ ~ask.isLoading

-----------------------------------------------------------------------------
(* loadSessions over bounded session lists *)

MaxListed == 3
MaxStamp == 2

InitBrowseLoad ==
    /\ ExtractIdle /\ ApiIdle
    /\ cmd = "browse"
    /\ srv \in {ServerWith(stamps) : stamps \in SeqsUpTo(0..MaxStamp, MaxListed)}
    /\ ask = AskInitial
    /\ browse = BrowseInitial
    /\ stack = <<>>
    /\ flows = <<LoadSessionsFlow>>
    /\ provFetch = None
    /\ toast = NoToast

NextBrowseLoad == BrowseRefresh \/ BrowseHealthDone \/ BrowseListDone

SpecBrowseLoad == InitBrowseLoad /\ [][NextBrowseLoad]_vars

\* where a session stands in a list
PositionIn(list, session) == CHOOSE k \in 1..Len(list) : list[k] = session

\* C5: after a successful load the displayed list holds the sessions of the
\* server's list, each once, later updatedAt first, and sessions of equal
\* updatedAt in the order the server listed them
C5_SortedStable ==
    [][\A i \in 1..Len(flows) :
         \A r \in ListResults(srv) :
           (BrowseListDoneAt(i, r) /\ r[1].status = "ok")
           => LET shown == browse'.sessions
                  listed == r[1].list
              IN  /\ Len(shown) = Len(listed)
                  /\ \A k \in 1..Len(listed) : \E j \in 1..Len(shown) : shown[j] = listed[k]
                  /\ \A a, b \in 1..Len(shown) :
                       a < b =>
                         \/ shown[a].updatedAt > shown[b].updatedAt
                         \/ /\ shown[a].updatedAt = shown[b].updatedAt
                            /\ PositionIn(listed, shown[a]) < PositionIn(listed, shown[b])
      ]_vars

\* the server listed stamps 1, 1, 2: the third session is shown first, then
\* the first and the second in the server's order
C5_Witness ==
    /\ srv = ServerWith(<<1, 1, 2>>)
    /\ ~browse.isLoading /\ browse.isServerOnline = Some(TRUE)
    /\ Len(browse.sessions) = 3
    /\ browse.sessions[1].id = 3 /\ browse.sessions[2].id = 1 /\ browse.sessions[3].id = 2

\* C16: a failed step of a start or of loadSessions reports the guidance to
\* start the server only when the request was refused, and always when the
\* refusal names ECONNREFUSED; a non-success status is reported with the
\* error's own message; loadSessions presents the server as offline when the
\* request was refused and not when the server answered with a non-success
\* status
C16_AsClaimed ==
    [][LET Guidance == <<"OpenCode server not running. Run opencode serve first.">>
           Econnrefused == "connect ECONNREFUSED 127.0.0.1:4096"
           Told(op, resp) ==
               /\ toast'.style = "failure"
               /\ toast'.message = Guidance => resp.status = "refused"
               /\ (resp.status = "refused" /\ resp.statusText = Econnrefused)
                    => toast'.message = Guidance
               /\ resp.status = "http"
                    => toast'.message = <<FailurePrefix(op), resp.statusText>>
           Shown(resp) ==
               /\ resp.status = "refused" => browse'.isServerOnline = Some(FALSE)
               /\ resp.status = "http" => browse'.isServerOnline # Some(FALSE)
       IN
       \A i \in 1..Len(flows) :
         /\ \A r \in HealthResults(srv) :
              /\ (AskHealthDoneAt(i, r) /\ r[1].status # "ok") => Told("checkHealth", r[1])
              /\ (BrowseHealthDoneAt(i, r) /\ r[1].status # "ok")
                   => (Told("checkHealth", r[1]) /\ Shown(r[1]))
         /\ \A r \in CreateResults(srv, SessionTitle(flows[i].prompt)) :
              (AskCreateDoneAt(i, r) /\ r[1].status # "ok") => Told("createSession", r[1])
         /\ \A r \in SendResults(srv, flows[i].req.sid, flows[i].req.prompt) :
              (AskSendDoneAt(i, r) /\ r[1].status # "ok") => Told("sendMessage", r[1])
         /\ \A r \in ListResults(srv) :
              (BrowseListDoneAt(i, r) /\ r[1].status # "ok")
                   => (Told("listSessions", r[1]) /\ Shown(r[1]))
      ]_vars

\* the server answered the health check and then the list request with a
\* non-success status: the error is reported with its own message, and the
\* command shows the server as offline although sessions were listed before
C16_OfflineThoughReachable ==
    /\ cmd = "browse" /\ flows = <<>>
    /\ browse.isServerOnline = Some(FALSE)
    /\ browse.sessions # <<>>
    /\ toast = Toast("failure", "Failed to load sessions",
                     <<FailurePrefix("listSessions"), "Internal Server Error">>)

\* C17: as long as the command holds no providers (the directory has not
\* answered, answered with none, or its fetch failed) the model selection is
\* unset and every send-message request on its way carries no model
C17_NoProvidersNoModel ==
    Root.providers = <<>>
    => /\ Root.selectedModel = None
       /\ \A i \in 1..Len(flows) :
            flows[i].req.op = "sendMessage" => flows[i].req.model = None

\* the directory answered with nothing to choose from, a conversation was
\* started and a continuation is on its way, without a model
C17_Witness ==
    /\ cmd = "ask" /\ provFetch = None
    /\ ask.providers = <<>> /\ ask.selectedModel = None
    /\ srv.clock >= 1
    /\ \E i \in 1..Len(flows) :
         /\ flows[i].kind = "continue"
         /\ flows[i].req.op = "sendMessage" /\ flows[i].req.model = None

\* C18: a start issues health check, create session and first message in
\* that order, each after the one before succeeded; the first message goes to
\* the identifier create-session returned; and a continuation is only sent
\* for a session whose first reply has arrived
C18_AsClaimed ==
    [][/\ \A prompt \in Prompts :
            (AskSubmitWith(prompt) /\ flows' # flows)
            => flows'[Len(flows')].req.op = "checkHealth"
       /\ \A i \in 1..Len(flows) :
            /\ \A r \in HealthResults(srv) :
                 AskHealthDoneAt(i, r)
                 => IF r[1].status = "ok" /\ r[1].healthy
                    THEN flows'[i].req.op = "createSession"
                    ELSE Len(flows') = Len(flows) - 1
            /\ \A r \in CreateResults(srv, SessionTitle(flows[i].prompt)) :
                 AskCreateDoneAt(i, r)
                 => IF r[1].status = "ok"
                    THEN /\ flows'[i].req.op = "sendMessage"
                         /\ flows'[i].req.sid = r[1].session.id
                         /\ flows'[i].req.prompt = flows[i].prompt
                    ELSE Len(flows') = Len(flows) - 1
       /\ \A prompt \in Prompts :
            \A model \in (IF OnTop("continueConversation")
                          THEN FormModels(Top.providers) ELSE {}) :
              (AskContinueSubmitWith(prompt, model) /\ flows' # flows)
              => LET sid == flows'[Len(flows')].req.sid IN
                 /\ sid \in 1..Len(srv.msgs)
                 /\ srv.msgs[sid] # <<>>
      ]_vars

\* a continuation is on its way to a session that never got a reply: its
\* first message failed, and no start is running
C18_NoFirstReply ==
    /\ cmd = "ask"
    /\ Len(flows) = 1 /\ flows[1].kind = "continue"
    /\ flows[1].req.op = "sendMessage"
    /\ flows[1].req.sid \in 1..Len(srv.msgs)
    /\ srv.msgs[flows[1].req.sid] = <<>>

C20_AsClaimed ==
    [][\A prompt \in Prompts :
         \A model \in (IF OnTop("continueConversation")
                       THEN FormModels(Top.providers) ELSE {}) :
           (AskContinueSubmitWith(prompt, model) /\ Trim(prompt) # <<>>)
           => /\ toast'.message # <<"No active session">>
              /\ Len(flows') = Len(flows) + 1
              /\ flows'[Len(flows')].req.op = "sendMessage"
              /\ flows'[Len(flows')].req.sid = Top.sid
      ]_vars

\* the view of the second conversation is open and the message typed into
\* its continue form is on its way to the session of the first start
C20_EarlierSession ==
    /\ cmd = "ask" /\ OnTop("continueConversation")
    /\ IsSome(ask.currentSession) /\ Val(ask.currentSession).id = 2
    /\ Top.sid = 2
    /\ Len(flows) = 1 /\ flows[1].kind = "continue"
    /\ flows[1].req.op = "sendMessage" /\ flows[1].req.sid = 1
    /\ Len(ask.conversation) = 3

\* C21: the loading flag of the Ask form is true exactly while a start of
\* it is suspended, that of the session list exactly while a loadSessions
\* is suspended, and that of a session detail on the stack exactly while a
\* loadMessages of it is suspended
C21_AsClaimed ==
    LET InFlight(kind, depth) ==
            \E i \in 1..Len(flows) : flows[i].kind = kind /\ flows[i].view = depth
    IN  /\ cmd = "ask" => (ask.isLoading <=> InFlight("submit", 0))
        /\ cmd = "browse" => (browse.isLoading <=> InFlight("loadSessions", 0))
        /\ \A d \in 1..Len(stack) :
             stack[d].kind = "sessionDetail"
             => (stack[d].isLoading <=> InFlight("loadMessages", d))

\* two loads of the session list overlapped and one of them has ended with
\* its list: the flag is down while the other is still on its way
C21_DownWhileInFlight ==
    /\ cmd = "browse" /\ stack = <<>>
    /\ ~browse.isLoading
    /\ browse.isServerOnline = Some(TRUE)
    /\ toast.style # "failure"
    /\ Len(flows) = 1 /\ flows[1].kind = "loadSessions"

\* C22: a delete from the list that succeeds puts exactly one loadSessions
\* in flight in place of its own request; one that fails puts none and leaves
\* the list shown; a delete from the session detail puts none either way and
\* leaves the list shown; and a loadSessions that ends with the server's list
\* shows no session the server has deleted
C22_DeleteReloadsOnce ==
    [][LET Loads(fl) == Cardinality({j \in 1..Len(fl) : fl[j].kind = "loadSessions"})
       IN
       \A i \in 1..Len(flows) :
         /\ \A r \in DeleteResults(srv, flows[i].req.sid) :
              DeleteDoneAt(i, r)
              => IF flows[i].kind = "deleteFromList" /\ r[1].status = "ok"
                 THEN /\ Len(flows') = Len(flows)
                      /\ Loads(flows') = Loads(flows) + 1
                      /\ flows'[Len(flows')].kind = "loadSessions"
                      /\ flows'[Len(flows')].req.op = "checkHealth"
                      /\ flows[i].req.sid \in srv'.deleted
                 ELSE /\ flows' = RemoveAt(flows, i)
                      /\ Loads(flows') = Loads(flows)
                      /\ browse' = browse
         /\ \A r \in ListResults(srv) :
              (BrowseListDoneAt(i, r) /\ r[1].status = "ok")
              => \A k \in 1..Len(browse'.sessions) :
                   browse'.sessions[k].id \notin srv'.deleted
      ]_vars

\* the delete of a listed session has just succeeded: the session is still
\* shown, and the one reload that will drop it is on its way
C22_Witness ==
    /\ cmd = "browse" /\ stack = <<>>
    /\ toast = Toast("success", "Session deleted", <<>>)
    /\ Len(flows) = 1 /\ flows[1].kind = "loadSessions" /\ flows[1].pc = "health"
    /\ browse.isLoading
    /\ browse.sessions # <<>>
    /\ \A k \in 1..Len(browse.sessions) : browse.sessions[k].id \in srv.deleted

\* C23: once two starts have both been answered, nothing is in flight and the
\* transcript has two entries, it is the exchange of the session recorded as
\* current: its user entry is the prompt that session received and its
\* assistant entry the reply that session gave
C23_AsClaimed ==
    (/\ cmd = "ask" /\ flows = <<>>
     /\ Len(srv.msgs) = 2 /\ Len(srv.msgs[1]) = 2 /\ Len(srv.msgs[2]) = 2
     /\ Len(ask.conversation) = 2)
    => /\ IsSome(ask.currentSession)
       /\ LET history == srv.msgs[Val(ask.currentSession).id]
              text == extractTextFromParts(history[2].parts)
          IN  /\ ask.conversation[1] =
                    [role |-> "user", content |-> Val(history[1].parts[1].text)]
              /\ ask.conversation[2] =
                    [role |-> "assistant",
                     content |-> IF text = <<>> THEN <<"No response received">> ELSE text]

\* two starts with different prompts overlapped and both were answered: the
\* current session is the second one, the transcript is the first one's
C23_Mixed ==
    /\ cmd = "ask" /\ flows = <<>>
    /\ Len(srv.msgs) = 2 /\ Len(srv.msgs[1]) = 2 /\ Len(srv.msgs[2]) = 2
    /\ IsSome(ask.currentSession) /\ Val(ask.currentSession).id = 2
    /\ Len(ask.conversation) = 2
    /\ ask.conversation[1].content = Val(srv.msgs[1][1].parts[1].text)
    /\ ask.conversation[1].content # Val(srv.msgs[2][1].parts[1].text)
    /\ toast = Toast("success", "Response received", <<>>)

-----------------------------------------------------------------------------
(* AskOpenCode.handleSubmit over prompts around the title limit *)

MaxLongPrompt == 52

\* prompts of every length up to MaxLongPrompt: a run of "a" then a run of "b"
LongPrompts ==
    UNION {{[k \in 1..n |-> IF k <= m THEN "a" ELSE "b"] : m \in 0..n} :
              n \in 1..MaxLongPrompt}

\* the Ask command right after a prompt was submitted
InitTitle ==
    /\ ExtractIdle /\ ApiIdle
    /\ cmd = "ask"
    /\ srv = EmptyServer
    /\ ask = [AskInitial EXCEPT !.isLoading = TRUE]
    /\ browse = BrowseInitial
    /\ stack = <<>>
    /\ \E prompt \in LongPrompts :
         flows = <<Flow("submit", "health", Req("checkHealth", 0, <<>>, None, None),
                        Closure(prompt, None, None, <<>>, 0, 0))>>
    /\ provFetch = None
    /\ toast = NoToast

NextTitle == AskHealthDone \/ AskCreateDone \/ AskSendDone

SpecTitle == InitTitle /\ [][NextTitle]_vars

IsPrefix(t, p) == Len(t) <= Len(p) /\ SubSeq(p, 1, Len(t)) = t

RaycastColon == <<"R", "a", "y", "c", "a", "s", "t", ":", " ">>

=============================================================================
